---------------------------- MODULE Spec2Model ----------------------------
(***************************************************************************)
(* A model of go-exif-gps-extract (src/main.go): the directory walk of     *)
(* main, the per-image builder extractExifDataFromImage, the coordinate    *)
(* formatter parseGPSPosition and the two report writers.                  *)
(*                                                                         *)
(* A Go string is a sequence of bytes.  It is modelled as a sequence of    *)
(* one-character strings; a byte outside ASCII is written "xHH".           *)
(***************************************************************************)
EXTENDS Integers, Sequences, FiniteSets, TLC

VARIABLES
    \* main
    pc,            \* where main is: "walk","report","done","aborted","exited","panicked"
    htmlFlag,      \* *htmlFlag
    csvFlag,       \* *csvFlag
    rootPath,      \* *rootPath
    visited,       \* the entries WalkDir has handed to the callback, in order
    builderCalls,  \* the paths extractExifDataFromImage was called with, in order
    exifDataArr,   \* the record collection
    logs,          \* what log.Println / log.Fatalf wrote, in order
    todo,          \* the report writers main still has to call, in order
    files,         \* the report files created so far: name -> content
    \* extractExifDataFromImage, one tag of the loop at a time
    xpc,           \* "idle","scan","compose","returned","panicked"
    exifTags,      \* the flattened tags
    tagIdx,        \* how many tags the loop has consumed
    latitudeDirection,
    longitudeDirection,
    latitudeValue,
    longitudeValue,
    csvData,       \* the record returned (<<>> before the return)
    \* parseGPSPosition
    fpc,           \* "idle","call","ret"
    gpsPosArr,     \* the argument
    position       \* the result

walkVars == <<pc, htmlFlag, csvFlag, rootPath, visited, builderCalls,
              exifDataArr, logs, todo, files>>
extractVars == <<xpc, exifTags, tagIdx, latitudeDirection, longitudeDirection,
                 latitudeValue, longitudeValue, csvData>>
fmtVars == <<fpc, gpsPosArr, position>>
vars == <<walkVars, extractVars, fmtVars>>

----------------------------------------------------------------------------
(* Bounds of the model.                                                    *)

\* Entries below the root that one walk visits.
MaxVisits == 3
\* Length of a flattened tag sequence.
MaxTags == 3
\* Numerators 0..MaxNum and denominators 0..MaxDen of a rational (besides
\* the values of the documented example).
MaxNum == 5
MaxDen == 3

----------------------------------------------------------------------------
(* Strings.                                                                *)

Digits == <<"0", "1", "2", "3", "4", "5", "6", "7", "8", "9">>

\* strconv.Itoa of a non-negative int.
RECURSIVE Itoa(_)
Itoa(n) == IF n < 10 THEN <<Digits[n + 1]>>
           ELSE Itoa(n \div 10) \o <<Digits[(n % 10) + 1]>>

\* strings.HasSuffix
HasSuffix(s, suffix) ==
    /\ Len(s) >= Len(suffix)
    /\ SubSeq(s, Len(s) - Len(suffix) + 1, Len(s)) = suffix

\* fmt.Sprintf("%.2f", float32(num)/float32(den)) for den # 0: the quotient
\* rounded to the nearest hundredth.  (Where 100*num/den falls exactly half
\* way between two integers the float32 quotient decides the digit; no such
\* pair lies within the bounds of the model.)
Sprintf2f(num, den) ==
    LET h == (200 * num + den) \div (2 * den)
    IN  Itoa(h \div 100) \o <<".">> \o <<Digits[((h \div 10) % 10) + 1]>>
                         \o <<Digits[(h % 10) + 1]>>

\* The literal between degrees and minutes, as the bytes of the source file.
DegreeLiteral == <<"xC3", "x82", "xC2", "xB0">>

\* The sentinel.
NotAvailable == <<"N", "o", "t", " ", "a", "v", "a", "i", "l", "a", "b", "l", "e">>

allowedExtensions ==
    << <<".", "j", "p", "e", "g">>, <<".", "j", "p", "g">>,
       <<".", "p", "n", "g">>, <<".", "g", "i", "f">> >>

hasValidExtension(name) ==
    \E i \in 1..Len(allowedExtensions) : HasSuffix(name, allowedExtensions[i])

----------------------------------------------------------------------------
(* parseGPSPosition.  The three index expressions need Len(arr) >= 3; on a  *)
(* shorter slice the Go runtime panics (index out of range).               *)

parseGPSPositionPanics(arr) == Len(arr) < 3

DegreesPart(r) ==
    IF r.Denominator # 0 THEN Itoa(r.Numerator \div r.Denominator) ELSE <<"0">>

MinutesPart(r) ==
    IF r.Denominator # 0 THEN Itoa(r.Numerator \div r.Denominator) ELSE <<"0">>

SecondsPart(r) ==
    IF r.Denominator # 0
    THEN Sprintf2f(r.Numerator, r.Denominator) \o <<"'", "'">>
    ELSE <<"0", "'", "'">>

parseGPSPosition(arr) ==
    DegreesPart(arr[1]) \o DegreeLiteral \o MinutesPart(arr[2]) \o <<"'">>
        \o SecondsPart(arr[3])

----------------------------------------------------------------------------
(* Tags.  A tag's Value is dynamically typed: a string, a slice of          *)
(* rationals, or a value of some other type.                               *)

GPSLongitudeRef == "GPSLongitudeRef"
GPSLatitudeRef == "GPSLatitudeRef"
GPSLongitude == "GPSLongitude"
GPSLatitude == "GPSLatitude"

StringValue(s) == [type |-> "string", str |-> s, rats |-> <<>>]
RationalsValue(arr) == [type |-> "rationals", str |-> <<>>, rats |-> arr]
OtherValue == [type |-> "other", str |-> <<>>, rats |-> <<>>]

Rational(n, d) == [Numerator |-> n, Denominator |-> d]

\* exifTag.Value.(string)
IsString(v) == v.type = "string"
\* exifTag.Value.([]exifCommon.Rational): any length passes the assertion
IsRationals(v) == v.type = "rationals"

\* The four locals of extractExifDataFromImage, zero-valued.
NoFields == [latitudeDirection |-> <<>>, longitudeDirection |-> <<>>,
             latitudeValue |-> <<>>, longitudeValue |-> <<>>]

\* One iteration of the loop panics when parseGPSPosition does.
TagPanics(tag) ==
    /\ tag.TagName \in {GPSLatitude, GPSLongitude}
    /\ IsRationals(tag.Value)
    /\ parseGPSPositionPanics(tag.Value.rats)

\* CaseGPSLatitudeRef keeping the first string instead of the last.
CaseGPSLatitudeRefFirstWins(f, tag) ==
    IF IsString(tag.Value) /\ f.latitudeDirection = <<>>
    THEN [f EXCEPT !.latitudeDirection = tag.Value.str] ELSE f

CaseGPSLatitudeRef(f, tag) ==
    IF IsString(tag.Value) THEN [f EXCEPT !.latitudeDirection = tag.Value.str] ELSE f

CaseGPSLatitude(f, tag) ==
    IF IsRationals(tag.Value)
    THEN [f EXCEPT !.latitudeValue = parseGPSPosition(tag.Value.rats)] ELSE f

CaseGPSLongitudeRef(f, tag) ==
    IF IsString(tag.Value) THEN [f EXCEPT !.longitudeDirection = tag.Value.str] ELSE f

CaseGPSLongitude(f, tag) ==
    IF IsRationals(tag.Value)
    THEN [f EXCEPT !.longitudeValue = parseGPSPosition(tag.Value.rats)] ELSE f

\* The switch on exifTag.TagName, for a tag on which nothing panics.
SwitchTag(f, tag) ==
    CASE tag.TagName = GPSLatitudeRef -> CaseGPSLatitudeRef(f, tag)
      [] tag.TagName = GPSLatitude -> CaseGPSLatitude(f, tag)
      [] tag.TagName = GPSLongitudeRef -> CaseGPSLongitudeRef(f, tag)
      [] tag.TagName = GPSLongitude -> CaseGPSLongitude(f, tag)
      [] OTHER -> f

\* The whole loop: the fields after the last tag, unless an iteration panics.
RECURSIVE ScanTags(_, _)
ScanTags(tags, f) ==
    IF tags = <<>> THEN [panic |-> FALSE, fields |-> f]
    ELSE IF TagPanics(Head(tags)) THEN [panic |-> TRUE, fields |-> f]
    ELSE ScanTags(Tail(tags), SwitchTag(f, Head(tags)))

\* finalLat without the sentinel.
finalLatNoSentinel(f) == f.latitudeValue \o f.latitudeDirection

finalLat(f) ==
    IF f.latitudeValue \o f.latitudeDirection = <<>> THEN NotAvailable
    ELSE f.latitudeValue \o f.latitudeDirection

\* finalLong reading the latitude fields.
finalLongFromLatitude(f) ==
    IF f.latitudeValue \o f.latitudeDirection = <<>> THEN NotAvailable
    ELSE f.latitudeValue \o f.latitudeDirection

finalLong(f) ==
    IF f.longitudeValue \o f.longitudeDirection = <<>> THEN NotAvailable
    ELSE f.longitudeValue \o f.longitudeDirection

\* The record built from the four locals.
ComposeRecord(imageFilePath, f) ==
    [FilePath |-> imageFilePath, Latitude |-> finalLat(f), Longitude |-> finalLong(f)]

\* What the file system and the exif library answer for one image: one of
\* the four errors, or the flattened tags.
ReadErr == [kind |-> "readErr", tags |-> <<>>]
NoExif == [kind |-> "noExif", tags |-> <<>>]
DecodeErr == [kind |-> "decodeErr", tags |-> <<>>]
FlattenErr == [kind |-> "flattenErr", tags |-> <<>>]
Flattened(tags) == [kind |-> "tags", tags |-> tags]

\* extractExifDataFromImage: the returned (record, error) pair, or a panic.
extractExifDataFromImage(imageFilePath, answer) ==
    IF answer.kind # "tags"
    THEN [outcome |-> "error", err |-> answer.kind, data |-> <<>>]
    ELSE LET scan == ScanTags(answer.tags, NoFields)
         IN  IF scan.panic
             THEN [outcome |-> "panic", err |-> "", data |-> <<>>]
             ELSE [outcome |-> "ok", err |-> "",
                   data |-> ComposeRecord(imageFilePath, scan.fields)]

----------------------------------------------------------------------------
(* The states in which one part of the program is not running.             *)

WalkIdle ==
    /\ pc = "idle" /\ htmlFlag = FALSE /\ csvFlag = FALSE /\ rootPath = <<>>
    /\ visited = <<>> /\ builderCalls = <<>> /\ exifDataArr = <<>>
    /\ logs = <<>> /\ todo = <<>> /\ files = <<>>

ExtractIdle ==
    /\ xpc = "idle" /\ exifTags = <<>> /\ tagIdx = 0
    /\ latitudeDirection = <<>> /\ longitudeDirection = <<>>
    /\ latitudeValue = <<>> /\ longitudeValue = <<>> /\ csvData = <<>>

FmtIdle == fpc = "idle" /\ gpsPosArr = <<>> /\ position = <<>>

----------------------------------------------------------------------------
(* parseGPSPosition on its own: SpecFmt.                                   *)

Numerators == (0..MaxNum) \cup {34, 1200}
Denominators == (0..MaxDen) \cup {100}
Rationals == {Rational(n, d) : n \in Numerators, d \in Denominators}
Triplets == [1..3 -> Rationals]
\* Slices the caller may pass that are no triplets.
ShortSlices == {<<>>, <<Rational(34, 1)>>, <<Rational(34, 1), Rational(5, 1)>>}

FmtInit ==
    /\ fpc = "call"
    /\ gpsPosArr \in Triplets \cup ShortSlices
    /\ position = <<>>
    /\ WalkIdle /\ ExtractIdle

FormatReturn ==
    /\ fpc = "call"
    /\ ~parseGPSPositionPanics(gpsPosArr)
    /\ position' = parseGPSPosition(gpsPosArr)
    /\ fpc' = "ret"
    /\ UNCHANGED <<gpsPosArr, walkVars, extractVars>>

FormatPanic ==
    /\ fpc = "call"
    /\ parseGPSPositionPanics(gpsPosArr)
    /\ fpc' = "panicked"
    /\ UNCHANGED <<gpsPosArr, position, walkVars, extractVars>>

FmtNext == FormatReturn \/ FormatPanic

SpecFmt == FmtInit /\ [][FmtNext]_vars

----------------------------------------------------------------------------
(* The tag loop and the composition of extractExifDataFromImage, one tag   *)
(* at a time, from the point where the tags have been flattened:           *)
(* SpecExtract.                                                            *)

TripletA == <<Rational(34, 1), Rational(5, 1), Rational(1200, 100)>>
TripletB == <<Rational(1, 0), Rational(0, 0), Rational(2, 0)>>
ShortRationals == <<Rational(34, 1), Rational(5, 1)>>

GPSNames == {GPSLatitudeRef, GPSLatitude, GPSLongitudeRef, GPSLongitude}
\* Two strings, two triplets and a slice that is too short: a string is the
\* wrong type for a coordinate tag, a slice the wrong type for a reference tag.
TagValues == {StringValue(<<"N">>), StringValue(<<>>), RationalsValue(TripletA),
              RationalsValue(TripletB), RationalsValue(ShortRationals)}
OtherTag == [TagName |-> "Make", Value |-> OtherValue]
Tags == [TagName : GPSNames, Value : TagValues] \cup {OtherTag}
TagSeqs == UNION {[1..n -> Tags] : n \in 0..MaxTags}

\* The path of the image in SpecExtract.
SamplePath == <<"i", "/", "a", ".", "j", "p", "g">>

Fields == [latitudeDirection |-> latitudeDirection,
           longitudeDirection |-> longitudeDirection,
           latitudeValue |-> latitudeValue,
           longitudeValue |-> longitudeValue]

ExtractInit ==
    /\ xpc = "scan"
    /\ exifTags \in TagSeqs
    /\ tagIdx = 0
    /\ latitudeDirection = <<>> /\ longitudeDirection = <<>>
    /\ latitudeValue = <<>> /\ longitudeValue = <<>>
    /\ csvData = <<>>
    /\ WalkIdle /\ FmtIdle

\* One iteration of the loop over exifTags.
ScanTag ==
    /\ xpc = "scan"
    /\ tagIdx < Len(exifTags)
    /\ ~TagPanics(exifTags[tagIdx + 1])
    /\ LET f == SwitchTag(Fields, exifTags[tagIdx + 1])
       IN  /\ latitudeDirection' = f.latitudeDirection
           /\ longitudeDirection' = f.longitudeDirection
           /\ latitudeValue' = f.latitudeValue
           /\ longitudeValue' = f.longitudeValue
    /\ tagIdx' = tagIdx + 1
    /\ UNCHANGED <<xpc, exifTags, csvData, walkVars, fmtVars>>

\* An iteration in which parseGPSPosition indexes past the slice.
ScanTagPanic ==
    /\ xpc = "scan"
    /\ tagIdx < Len(exifTags)
    /\ TagPanics(exifTags[tagIdx + 1])
    /\ xpc' = "panicked"
    /\ UNCHANGED <<exifTags, tagIdx, latitudeDirection, longitudeDirection,
                   latitudeValue, longitudeValue, csvData, walkVars, fmtVars>>

\* After the loop: compose the two strings and return the record.
ComposeAndReturn ==
    /\ xpc = "scan"
    /\ tagIdx = Len(exifTags)
    /\ csvData' = ComposeRecord(SamplePath, Fields)
    /\ xpc' = "returned"
    /\ UNCHANGED <<exifTags, tagIdx, latitudeDirection, longitudeDirection,
                   latitudeValue, longitudeValue, walkVars, fmtVars>>

ExtractNext == ScanTag \/ ScanTagPanic \/ ComposeAndReturn

SpecExtract == ExtractInit /\ [][ExtractNext]_vars

----------------------------------------------------------------------------
(* main: the walk and the reports: Spec.                                   *)

DefaultDirectory == <<"i", "m", "a", "g", "e", "s">>
directoryPath == IF rootPath # <<>> THEN rootPath ELSE DefaultDirectory

\* filepath.Join of a directory and the name of one of its entries.
Join(dir, name) == dir \o <<"/">> \o name

CsvFileName == <<"e", "x", "i", "f", "-", "d", "a", "t", "a", ".", "c", "s", "v">>
HtmlFileName == <<"e", "x", "i", "f", "-", "d", "a", "t", "a", ".", "h", "t", "m", "l">>

\* The entries the file system may hold below the root, name and kind, in
\* the lexical order of their names: the order in which WalkDir visits them.
Entry(name, isDir) == [name |-> name, isDir |-> isDir]
Entries ==
    << Entry(<<"a", ".", "j", "p", "g">>, FALSE),
       Entry(<<"b", ".", "p", "n", "g">>, FALSE),
       Entry(<<"c", ".", "J", "P", "G">>, FALSE),
       Entry(<<"d", ".", "j", "p", "g">>, TRUE),
       Entry(<<"e", ".", "g", "i", "f">>, FALSE),
       Entry(<<"f", ".", "j", "p", "e", "g">>, FALSE) >>

\* The place in Entries of the entry visited last (0 for the root).
LastVisited(vs) ==
    IF Len(vs) <= 1 THEN 0
    ELSE CHOOSE k \in 1..Len(Entries) : Entries[k].name = vs[Len(vs)].name

\* What reading and decoding an entry may answer.  ioutil.ReadFile of a
\* directory fails.
LatitudeOnlyTags == << [TagName |-> GPSLatitudeRef, Value |-> StringValue(<<"N">>)],
                       [TagName |-> GPSLatitude, Value |-> RationalsValue(TripletA)] >>
ShortCoordinateTags == << [TagName |-> GPSLongitude,
                           Value |-> RationalsValue(ShortRationals)] >>
Answers(isDir) ==
    IF isDir THEN {ReadErr}
    ELSE {ReadErr, NoExif, DecodeErr, FlattenErr, Flattened(<<>>),
          Flattened(LatitudeOnlyTags), Flattened(ShortCoordinateTags)}

LogEntry(kind, subject, detail) == [kind |-> kind, subject |-> subject, detail |-> detail]

\* WalkFunc returning the builder's error to WalkDir.
WalkFuncReturnsExtractErr(path, name, answer, arr, lg) ==
    IF hasValidExtension(name)
    THEN LET r == extractExifDataFromImage(path, answer)
         IN  CASE r.outcome = "error" ->
                    [arr |-> arr, logs |-> Append(lg, LogEntry("extract", path, r.err)),
                     ret |-> TRUE, called |-> TRUE, panic |-> FALSE]
               [] r.outcome = "ok" ->
                    [arr |-> Append(arr, r.data), logs |-> lg,
                     ret |-> FALSE, called |-> TRUE, panic |-> FALSE]
               [] OTHER ->
                    [arr |-> arr, logs |-> lg,
                     ret |-> FALSE, called |-> TRUE, panic |-> TRUE]
    ELSE [arr |-> arr, logs |-> lg, ret |-> FALSE, called |-> FALSE, panic |-> FALSE]

\* The callback handed to filepath.WalkDir, called with err = nil: the
\* collection and the log after it, the error it returns, and whether the
\* builder was called and whether it panicked.
WalkFunc(path, name, answer, arr, lg) ==
    IF hasValidExtension(name)
    THEN LET r == extractExifDataFromImage(path, answer)
         IN  CASE r.outcome = "error" ->
                    [arr |-> arr, logs |-> Append(lg, LogEntry("extract", path, r.err)),
                     ret |-> FALSE, called |-> TRUE, panic |-> FALSE]
               [] r.outcome = "ok" ->
                    [arr |-> Append(arr, r.data), logs |-> lg,
                     ret |-> FALSE, called |-> TRUE, panic |-> FALSE]
               [] OTHER ->
                    [arr |-> arr, logs |-> lg,
                     ret |-> FALSE, called |-> TRUE, panic |-> TRUE]
    ELSE [arr |-> arr, logs |-> lg, ret |-> FALSE, called |-> FALSE, panic |-> FALSE]

\* The callback called with err # nil: it logs and returns the error.
WalkFuncOnError(path, lg) == Append(lg, LogEntry("walk", path, "err"))

\* SelectReports with a first condition that forgets the csv flag.
SelectReportsHtmlFirst(html, csv) ==
    IF html THEN <<"html">>
    ELSE IF ~html /\ csv THEN <<"csv">>
    ELSE <<"csv", "html">>

\* The if / else-if / else of main that picks the writers.
SelectReports(html, csv) ==
    IF html /\ ~csv THEN <<"html">>
    ELSE IF ~html /\ csv THEN <<"csv">>
    ELSE <<"csv", "html">>

\* AfterWalk without the return that follows the log.
AfterWalkNoReturn(werr, lg) ==
    [pc |-> "report",
     logs |-> IF werr THEN Append(lg, LogEntry("main", directoryPath, "err")) ELSE lg,
     todo |-> SelectReports(htmlFlag, csvFlag)]

\* main after WalkDir has returned werr: log and return, or go on to the reports.
AfterWalk(werr, lg) ==
    IF werr
    THEN [pc |-> "aborted", logs |-> Append(lg, LogEntry("main", directoryPath, "err")),
          todo |-> <<>>]
    ELSE [pc |-> "report", logs |-> lg, todo |-> SelectReports(htmlFlag, csvFlag)]

\* createFile: os.Create, and log.Fatalf (which ends the process) when it fails.
createFile(fileName, osCreateOk, lg) ==
    IF osCreateOk
    THEN [exits |-> FALSE, err |-> FALSE, logs |-> lg]
    ELSE [exits |-> TRUE, err |-> TRUE, logs |-> Append(lg, LogEntry("fatal", fileName, "err"))]

Row(d) == <<d.FilePath, d.Latitude, d.Longitude>>
Rows(data) == [i \in 1..Len(data) |-> Row(data[i])]
ReportHeader == <<"File Path", "Latitude", "Longitude">>
ReportContent(data) == [header |-> ReportHeader, rows |-> Rows(data)]

WithFile(fs, fileName, content) ==
    [n \in (DOMAIN fs) \cup {fileName} |-> IF n = fileName THEN content ELSE fs[n]]

Init ==
    /\ pc = "walk"
    /\ htmlFlag \in BOOLEAN
    /\ csvFlag \in BOOLEAN
    /\ rootPath \in {<<>>, <<"p">>}
    /\ visited = <<>>
    /\ builderCalls = <<>>
    /\ exifDataArr = <<>>
    /\ logs = <<>>
    /\ todo = <<>>
    /\ files = <<>>
    /\ ExtractIdle /\ FmtIdle

\* One call of the callback with err = nil, for the entry at path.
Visit(path, name, isDir, answer) ==
    LET r == WalkFunc(path, name, answer, exifDataArr, logs)
        after == AfterWalk(r.ret, r.logs)
    IN  /\ visited' = Append(visited, [path |-> path, name |-> name,
                                      isDir |-> isDir, answer |-> answer])
        /\ builderCalls' = IF r.called THEN Append(builderCalls, path) ELSE builderCalls
        /\ exifDataArr' = r.arr
        /\ IF r.panic
           THEN pc' = "panicked" /\ logs' = r.logs
           ELSE IF r.ret
           THEN pc' = after.pc /\ logs' = after.logs
           ELSE pc' = "walk" /\ logs' = r.logs
        /\ UNCHANGED <<htmlFlag, csvFlag, rootPath, todo, files, extractVars, fmtVars>>

\* WalkDir cannot stat the root: the callback is called once, with the error.
WalkRootError ==
    /\ pc = "walk"
    /\ visited = <<>>
    /\ LET after == AfterWalk(TRUE, WalkFuncOnError(directoryPath, logs))
       IN  pc' = after.pc /\ logs' = after.logs /\ todo' = after.todo
    /\ UNCHANGED <<htmlFlag, csvFlag, rootPath, visited, builderCalls, exifDataArr,
                   files, extractVars, fmtVars>>

\* WalkDir visits the root, a directory, first.
VisitRoot ==
    /\ pc = "walk"
    /\ visited = <<>>
    /\ \E answer \in Answers(TRUE) : Visit(directoryPath, directoryPath, TRUE, answer)

\* WalkDir visits the next entry there is, in lexical order.
VisitEntry ==
    /\ pc = "walk"
    /\ visited # <<>>
    /\ Len(visited) <= MaxVisits
    /\ \E k \in (LastVisited(visited) + 1)..Len(Entries) :
        \E answer \in Answers(Entries[k].isDir) :
            Visit(Join(directoryPath, Entries[k].name), Entries[k].name,
                  Entries[k].isDir, answer)

\* WalkDir cannot read the directory it has just visited: the callback is
\* called a second time for it, with the error.
ReadDirError ==
    /\ pc = "walk"
    /\ visited # <<>>
    /\ visited[Len(visited)].isDir
    /\ LET after == AfterWalk(TRUE, WalkFuncOnError(visited[Len(visited)].path, logs))
       IN  pc' = after.pc /\ logs' = after.logs /\ todo' = after.todo
    /\ UNCHANGED <<htmlFlag, csvFlag, rootPath, visited, builderCalls, exifDataArr,
                   files, extractVars, fmtVars>>

\* WalkDir has visited everything and returns nil.
WalkDone ==
    /\ pc = "walk"
    /\ visited # <<>>
    /\ LET after == AfterWalk(FALSE, logs)
       IN  pc' = after.pc /\ logs' = after.logs /\ todo' = after.todo
    /\ UNCHANGED <<htmlFlag, csvFlag, rootPath, visited, builderCalls, exifDataArr,
                   files, extractVars, fmtVars>>

\* One report writer, from its createFile to its return.  Writes to a file
\* that was created are taken to succeed.
WriteReport(which, fileName, errKind) ==
    /\ pc = "report"
    /\ todo # <<>>
    /\ Head(todo) = which
    /\ \E osCreateOk \in BOOLEAN :
        LET c == createFile(fileName, osCreateOk, logs)
            rest == IF Tail(todo) = <<>> THEN "done" ELSE "report"
        IN  IF c.exits
            THEN pc' = "exited" /\ logs' = c.logs /\ UNCHANGED <<files, todo>>
            ELSE IF c.err
            THEN /\ logs' = Append(c.logs, LogEntry(errKind, fileName, "err"))
                 /\ todo' = Tail(todo) /\ pc' = rest /\ UNCHANGED files
            ELSE /\ files' = WithFile(files, fileName, ReportContent(exifDataArr))
                 /\ logs' = c.logs /\ todo' = Tail(todo) /\ pc' = rest
    /\ UNCHANGED <<htmlFlag, csvFlag, rootPath, visited, builderCalls, exifDataArr,
                   extractVars, fmtVars>>

writeToCSV == WriteReport("csv", CsvFileName, "csvCreate")

writeToHTML == WriteReport("html", HtmlFileName, "htmlCreate")

Next ==
    \/ WalkRootError
    \/ VisitRoot
    \/ VisitEntry
    \/ ReadDirError
    \/ WalkDone
    \/ writeToCSV
    \/ writeToHTML

Spec == Init /\ [][Next]_vars

----------------------------------------------------------------------------
(* Properties of parseGPSPosition (SpecFmt).                               *)

\* The degree sign U+00B0 in UTF-8.
DegreeSign == <<"xC2", "xB0">>

IsPrefix(p, s) == Len(p) <= Len(s) /\ SubSeq(s, 1, Len(p)) = p

\* The truncating quotient in decimal, "0" for a zero denominator.
QuotientOrZero(r) ==
    IF r.Denominator = 0 THEN <<"0">> ELSE Itoa(r.Numerator \div r.Denominator)

FormattedWith(sign) ==
    fpc = "ret" =>
        LET front == QuotientOrZero(gpsPosArr[1]) \o sign
                        \o QuotientOrZero(gpsPosArr[2]) \o <<"'">>
        IN  /\ IsPrefix(front, position)
            /\ HasSuffix(position, <<"'", "'">>)
            /\ gpsPosArr[3].Denominator = 0 => position = front \o <<"0", "'", "'">>
            /\ (\A i \in 1..3 : gpsPosArr[i].Denominator = 0)
                   => position = <<"0">> \o sign \o <<"0", "'", "0", "'", "'">>
            /\ gpsPosArr = TripletA
                   => position = <<"3", "4">> \o sign
                          \o <<"5", "'", "1", "2", ".", "0", "0", "'", "'">>

\* C7: for every triplet the result is <deg>, the degree sign, <min>, ', <sec>, '',
\* with the truncating quotients for <deg> and <min>, "0" for every component
\* whose denominator is zero, "0(deg)0'0''" for all-zero denominators and
\* "34(deg)5'12.00''" for {(34,1),(5,1),(1200,100)}, (deg) being the degree sign.
C7_FormatWithDegreeSign == FormattedWith(DegreeSign)

\* What the code returns instead: the same, with the four bytes of the
\* source's literal where the degree sign should be.
FormatAsCoded == FormattedWith(DegreeLiteral)

\* A triplet never panics.
TripletNeverPanics == fpc = "panicked" => Len(gpsPosArr) < 3

----------------------------------------------------------------------------
(* Properties of the tag loop and the composition (SpecExtract).           *)

Present(n) == \E i \in 1..Len(exifTags) : exifTags[i].TagName = n

NoGPSTags == \A n \in GPSNames : ~Present(n)

OnlyLatitudeTags ==
    /\ Present(GPSLatitudeRef) \/ Present(GPSLatitude)
    /\ ~Present(GPSLongitudeRef) /\ ~Present(GPSLongitude)

SetMax(S) == CHOOSE m \in S : \A x \in S : x <= m

\* The occurrences of name n among the first k tags whose value has the Go
\* type the case of the switch asserts.
StringOccurrences(n, k) ==
    {j \in 1..k : exifTags[j].TagName = n /\ exifTags[j].Value.type = "string"}
RationalsOccurrences(n, k) ==
    {j \in 1..k : exifTags[j].TagName = n /\ exifTags[j].Value.type = "rationals"}

LastString(n, k) ==
    IF StringOccurrences(n, k) = {} THEN <<>>
    ELSE exifTags[SetMax(StringOccurrences(n, k))].Value.str

LastCoordinate(n, k) ==
    IF RationalsOccurrences(n, k) = {} THEN <<>>
    ELSE parseGPSPosition(exifTags[SetMax(RationalsOccurrences(n, k))].Value.rats)

\* The composition rule of the builder, on the fields the loop extracted.
ComposedBy(value, direction) ==
    IF value = <<>> /\ direction = <<>> THEN NotAvailable ELSE value \o direction

CompositionRule ==
    xpc = "returned" =>
        /\ csvData.Latitude = ComposedBy(latitudeValue, latitudeDirection)
        /\ csvData.Longitude = ComposedBy(longitudeValue, longitudeDirection)

NoGPSRule ==
    xpc = "returned" /\ NoGPSTags =>
        csvData.Latitude = NotAvailable /\ csvData.Longitude = NotAvailable

LatitudeTagEffective ==
    \/ RationalsOccurrences(GPSLatitude, Len(exifTags)) # {}
    \/ LastString(GPSLatitudeRef, Len(exifTags)) # <<>>

WellShapedCoordinates(n, k) ==
    {j \in RationalsOccurrences(n, k) : Len(exifTags[j].Value.rats) = 3}
IllShapedIgnored ==
    /\ latitudeDirection = LastString(GPSLatitudeRef, tagIdx)
    /\ longitudeDirection = LastString(GPSLongitudeRef, tagIdx)
    /\ \A n \in {GPSLatitude, GPSLongitude} :
          (IF n = GPSLatitude THEN latitudeValue ELSE longitudeValue) =
             IF WellShapedCoordinates(n, tagIdx) = {} THEN <<>>
             ELSE parseGPSPosition(exifTags[SetMax(WellShapedCoordinates(n, tagIdx))].Value.rats)

\* C9: no tag value makes the extractor fail: a reference tag that holds no
\* string and a coordinate tag that holds no slice of three rationals (a
\* shorter slice included) is ignored and leaves its field as it was, and
\* nothing panics.
C9_IllShapedTagNeverFaults ==
    /\ xpc # "panicked"
    /\ IllShapedIgnored

----------------------------------------------------------------------------
(* Properties of the walk and the reports (Spec).                          *)

\* A name ends, byte for byte, with one of the four extensions.
ImageSuffixes == { <<".", "j", "p", "e", "g">>, <<".", "j", "p", "g">>,
                   <<".", "p", "n", "g">>, <<".", "g", "i", "f">> }
ExactSuffixMatch(name) ==
    \E x \in ImageSuffixes :
        /\ Len(name) >= Len(x)
        /\ \A i \in 1..Len(x) : name[Len(name) - Len(x) + i] = x[i]

LogsOfKind(kind) == SelectSeq(logs, LAMBDA l : l.kind = kind)
Subjects(ls) == [i \in 1..Len(ls) |-> ls[i].subject]

NoTraversalError == LogsOfKind("walk") = <<>>

\* The build of a visited entry succeeds: its metadata decodes and flattens
\* and no tag makes the loop panic.
BuildSucceeds(v) ==
    /\ v.answer.kind = "tags"
    /\ \A i \in 1..Len(v.answer.tags) : ~TagPanics(v.answer.tags[i])

\* The records of the eligible entries whose build succeeded, in the order
\* of the visits; the paths of those whose build failed, in the same order.
RECURSIVE SucceededRecords(_)
SucceededRecords(vs) ==
    IF vs = <<>> THEN <<>>
    ELSE LET v == vs[Len(vs)]
             before == SucceededRecords(SubSeq(vs, 1, Len(vs) - 1))
         IN  IF ExactSuffixMatch(v.name) /\ BuildSucceeds(v)
             THEN Append(before,
                         [FilePath |-> v.path,
                          Latitude |-> finalLat(ScanTags(v.answer.tags, NoFields).fields),
                          Longitude |-> finalLong(ScanTags(v.answer.tags, NoFields).fields)])
             ELSE before

FailedPaths(vs) ==
    LET failed == SelectSeq(vs, LAMBDA v : ExactSuffixMatch(v.name) /\ v.answer.kind # "tags")
    IN  [i \in 1..Len(failed) |-> failed[i].path]

\* C2: as long as the walk meets no traversal error, a failed build (file
\* read, no metadata, decode or flatten error) does not stop it: the walk is
\* not aborted, the per-file errors logged are exactly those of the entries
\* whose build failed, one each and in order, and the collection is exactly
\* the records of the eligible entries whose build succeeded, in visitation
\* order.
C2_FaultIsolation ==
    (NoTraversalError /\ pc # "panicked") =>
        /\ pc # "aborted"
        /\ LogsOfKind("main") = <<>>
        /\ Subjects(LogsOfKind("extract")) = FailedPaths(visited)
        /\ exifDataArr = SucceededRecords(visited)

\* The build of the first of three images has failed, the builds of the
\* other two have succeeded, and the walk has ended with their two records
\* and one logged error.
C2_Witness ==
    /\ pc = "done"
    /\ NoTraversalError
    /\ Len(visited) = 4
    /\ visited[2].answer = NoExif /\ ~visited[2].isDir
    /\ visited[3].answer = Flattened(LatitudeOnlyTags)
    /\ visited[4].answer = Flattened(<<>>)
    /\ Len(exifDataArr) = 2
    /\ exifDataArr[1].FilePath = visited[3].path
    /\ exifDataArr[2].FilePath = visited[4].path
    /\ Len(LogsOfKind("extract")) = 1
    /\ LogsOfKind("extract")[1].subject = visited[2].path

HasTraversalError == LogsOfKind("walk") # <<>>

\* C3: once the traversal has reported an error the walk has stopped (the
\* error is the last thing the callback did), the error is logged, main has
\* returned, and no report file exists, whatever the records and the flags;
\* a report file exists only after a walk that ended without traversal error.
C3_TraversalErrorAborts ==
    /\ HasTraversalError =>
          /\ pc = "aborted"
          /\ todo = <<>>
          /\ DOMAIN files = {}
          /\ Len(logs) >= 2
          /\ logs[Len(logs) - 1].kind = "walk"
          /\ logs[Len(logs)].kind = "main"
    /\ DOMAIN files # {} => NoTraversalError /\ pc \in {"report", "done", "exited"}
    /\ pc \in {"walk", "aborted", "panicked"} => DOMAIN files = {}

\* A directory below the root could not be read after a record had been
\* collected, with both flags set.
C3_Witness ==
    /\ pc = "aborted"
    /\ htmlFlag /\ csvFlag
    /\ exifDataArr # <<>>
    /\ Len(visited) >= 3
    /\ HasTraversalError
    /\ DOMAIN files = {}

\* C4: every record of the collection has a non-empty FilePath, and neither
\* its Latitude nor its Longitude is the empty string.
C4_RecordsWellFormed ==
    \A i \in 1..Len(exifDataArr) :
        /\ exifDataArr[i].FilePath # <<>>
        /\ exifDataArr[i].Latitude # <<>>
        /\ exifDataArr[i].Longitude # <<>>

\* The collection holds a record with both sentinels and one with a
\* formatted latitude.
C4_Witness ==
    /\ Len(exifDataArr) = 2
    /\ exifDataArr[1].Latitude = NotAvailable
    /\ exifDataArr[1].Longitude = NotAvailable
    /\ exifDataArr[2].Latitude = parseGPSPosition(TripletA) \o <<"N">>
    /\ exifDataArr[2].Longitude = NotAvailable

BothSelected == htmlFlag = csvFlag

CreationFailed(fileName) ==
    \E i \in 1..Len(logs) :
        logs[i].kind \in {"fatal", "csvCreate", "htmlCreate"} /\ logs[i].subject = fileName

\* C5: when the run has ended after a walk without error, both reports were
\* selected and the file of one could not be created, the failure is logged
\* and the other report has been produced.
C5_ReportFailureIsolated ==
    (pc \in {"done", "exited"} /\ BothSelected) =>
        /\ CreationFailed(CsvFileName) /\ ~CreationFailed(HtmlFileName)
               => HtmlFileName \in DOMAIN files
        /\ CreationFailed(HtmlFileName) /\ ~CreationFailed(CsvFileName)
               => CsvFileName \in DOMAIN files

\* C6: the builder is called for a visited entry exactly when the entry is a
\* file whose name ends with one of the extensions, and no per-file error is
\* logged for a directory.
C6_BuilderOnlyForImageFiles ==
    \A i \in 1..Len(visited) :
        /\ (\E j \in 1..Len(builderCalls) : builderCalls[j] = visited[i].path)
               <=> (~visited[i].isDir /\ ExactSuffixMatch(visited[i].name))
        /\ visited[i].isDir =>
               \A j \in 1..Len(logs) :
                   logs[j].kind = "extract" => logs[j].subject # visited[i].path

\* What the code does: it looks at the name alone.
BuilderForEveryMatchingName ==
    \A i \in 1..Len(visited) :
        (\E j \in 1..Len(builderCalls) : builderCalls[j] = visited[i].path)
            <=> ExactSuffixMatch(visited[i].name)

SelectedFiles ==
    IF htmlFlag /\ ~csvFlag THEN {HtmlFileName}
    ELSE IF csvFlag /\ ~htmlFlag THEN {CsvFileName}
    ELSE {CsvFileName, HtmlFileName}

RecordRows == [i \in 1..Len(exifDataArr) |->
                  <<exifDataArr[i].FilePath, exifDataArr[i].Latitude, exifDataArr[i].Longitude>>]

\* C8: after a walk without error no report other than the selected ones is
\* ever written, and when main returns the reports written are exactly the
\* selected ones: the one whose flag is set when exactly one is set, both
\* when neither or both are set; each holds one row per record of the
\* collection, in its order.
C8_ReportSelection ==
    /\ DOMAIN files \subseteq SelectedFiles
    /\ pc = "done" => DOMAIN files = SelectedFiles
    /\ \A n \in DOMAIN files : files[n].rows = RecordRows

\* Neither flag set: both reports written, two rows each.
C8_Witness ==
    /\ pc = "done"
    /\ ~htmlFlag /\ ~csvFlag
    /\ DOMAIN files = {CsvFileName, HtmlFileName}
    /\ Len(exifDataArr) = 2
    /\ files[CsvFileName].rows = RecordRows
    /\ files[HtmlFileName].rows = RecordRows

============================================================================
